---- MODULE Spec2Model ----
(***************************************************************************)
(* Regular-expression pipeline of the repository:                          *)
(*   regex_to_NFA.py  add_concat, to_postfix, build (Thompson), eps_closure,*)
(*                    move, matches                                        *)
(*   nfa_to_dfa.py    NFA.epsilon_closure, DFA.accepts, nfa_to_dfa          *)
(* A character is a one-character string, a pattern or an input a sequence *)
(* of characters.  Python exceptions are outcomes: err = "IndexError".     *)
(***************************************************************************)
EXTENDS Integers, Sequences, FiniteSets, TLC

VARIABLES
    pc,          \* position of the running program
    err,         \* "none", or the exception that ended the run
    input,       \* s of matches / string of DFA.accepts
    result,      \* what matches / DFA.accepts returned
    \* ---- regex_to_NFA.py: one compilation followed by one match
    pattern,     \* r of add_concat
    proc,        \* add_concat(pattern)
    postfix,     \* to_postfix(proc)
    idx,         \* position of build's for loop in postfix
    gen,         \* next value of build's counter (itertools.count)
    ids,         \* the identifiers the running build call has allocated
    stack,       \* build's operand stack of fragments
    nfa,         \* what build returned
    calls,       \* the completed build calls of a process, oldest first
    \* ---- nfa_to_dfa.py: nfa_to_dfa(nfa) followed by one DFA.accepts
    nfa_arg,            \* the NFA object handed to nfa_to_dfa
    start_closure,
    dfa_states,
    unmarked_states,
    dfa_transitions,
    dfa_accept_states,
    current,
    todo,               \* symbols of nfa.alphabet the for loop has yet to visit
    popped,             \* history: the state sets popped so far, in order
    dfa,                \* the DFA object returned
    \* ---- the epsilon-closure loops, step by step
    impl,        \* "NFA.epsilon_closure" or "eps_closure"
    rel,         \* the transitions the closure runs on (self.transitions / tr)
    state_set,   \* the seed (state_set / states)
    closure,     \* closure / res
    worklist,    \* stack / stk
    pushes,      \* history: the states pushed after seeding, in order
    round,       \* 1: closure of the seed; 2: closure of the first result
    first        \* the result of round 1

comVars == <<err, input, result>>
rxVars == <<pattern, proc, postfix, idx, gen, ids, stack, nfa>>
sdVars == <<nfa_arg, start_closure, dfa_states, unmarked_states, dfa_transitions,
            dfa_accept_states, current, todo, popped, dfa>>
clVars == <<impl, rel, state_set, closure, worklist, pushes, round, first>>
vars == <<pc, comVars, rxVars, calls, sdVars, clVars>>

(***************************************************************************)
(* Bounds                                                                  *)
(***************************************************************************)
MaxPatLen == 2
MaxInputLen == 3
MaxEdges == 2
MaxWordLen == 2

RECURSIVE StrUpTo(_, _)
StrUpTo(chars, n) ==
    IF n = 0 THEN {<< >>}
    ELSE LET shorter == StrUpTo(chars, n - 1)
         IN  shorter \cup {Append(s, c) : s \in shorter, c \in chars}

PatternChars == {"a", "b", "(", ")", "|", "*", "+", "?", "."}
InputChars == {"a", "b", "c", "d"}

\* The patterns the repository and its specification name.
PatComposite == <<"a", "(", "b", "|", "c", ")", "*", "d">>
PatPlus == <<"a", "b", "+", "c">>
PatStar == <<"a", "b", "*", "c">>
PatAlt == <<"a", "|", "b">>
PatOpenAlt == <<"(", "a", "|", "b">>
PatStarStar == <<"a", "*", "*">>
NamedPatterns == {PatComposite, PatPlus, PatStar, PatAlt, PatOpenAlt, PatStarStar}

Patterns == StrUpTo(PatternChars, MaxPatLen) \cup NamedPatterns
Inputs == StrUpTo(InputChars, MaxInputLen) \cup {<<"a", "b", "c", "d">>, <<"a", "b", "b", "c">>}

\* The NFA objects handed to nfa_to_dfa: three states, at most MaxEdges transitions.
NfaStates == {0, 1, 2}
NfaSymbols == {"a", "b"}

RECURSIVE SetsUpTo(_, _)
SetsUpTo(U, k) ==
    IF k = 0 THEN {{}}
    ELSE LET smaller == SetsUpTo(U, k - 1)
         IN  smaller \cup {E \cup {x} : E \in smaller, x \in U}

(***************************************************************************)
(* regex_to_NFA.py                                                         *)
(***************************************************************************)
EPS == "EPS"
NoChar == "None"

RECURSIVE add_concat_loop(_, _, _, _)
add_concat_loop(r, i, prev, out) ==
    IF i > Len(r) THEN out
    ELSE LET c == r[i]
             dot == IF /\ prev # NoChar
                       /\ prev \notin {"|", "("}
                       /\ c \notin {"|", ")", "*", "+", "?"}
                    THEN <<".">> ELSE << >>
         IN  add_concat_loop(r, i + 1, c, out \o dot \o <<c>>)

add_concat(r) == add_concat_loop(r, 1, NoChar, << >>)

InPrec(c) == c \in {"*", "+", "?", ".", "|"}
prec(c) == CASE c \in {"*", "+", "?"} -> 3
             [] c = "." -> 2
             [] c = "|" -> 1
             [] OTHER -> 0

Top(s) == s[Len(s)]
Pop(s) == SubSeq(s, 1, Len(s) - 1)

RECURSIVE Reverse(_)
Reverse(s) == IF s = << >> THEN << >> ELSE <<Top(s)>> \o Reverse(Pop(s))

\* while st and st[-1] != '(': out.append(st.pop())
RECURSIVE PopToParen(_, _)
PopToParen(out, st) ==
    IF st # << >> /\ Top(st) # "("
    THEN PopToParen(Append(out, Top(st)), Pop(st))
    ELSE [out |-> out, st |-> st]

\* The ')' branch with the pop of the matching '(' left out.
KeepParen(st) == st

\* st.pop() if st else None
DiscardParen(st) == IF st # << >> THEN Pop(st) ELSE st

\* while st and st[-1] != '(' and prec.get(st[-1], 0) >= prec[c]: out.append(st.pop())
RECURSIVE PopPrec(_, _, _)
PopPrec(out, st, c) ==
    IF st # << >> /\ Top(st) # "(" /\ prec(Top(st)) >= prec(c)
    THEN PopPrec(Append(out, Top(st)), Pop(st), c)
    ELSE [out |-> out, st |-> st]

RECURSIVE to_postfix_loop(_, _, _, _)
to_postfix_loop(r, i, out, st) ==
    IF i > Len(r) THEN out \o Reverse(st)
    ELSE LET c == r[i] IN
         IF c = "(" THEN to_postfix_loop(r, i + 1, out, Append(st, c))
         ELSE IF c = ")" THEN
             LET p == PopToParen(out, st)
             IN  to_postfix_loop(r, i + 1, p.out, DiscardParen(p.st))
         ELSE IF InPrec(c) THEN
             LET p == PopPrec(out, st, c)
             IN  to_postfix_loop(r, i + 1, p.out, Append(p.st, c))
         ELSE to_postfix_loop(r, i + 1, Append(out, c), st)

to_postfix(r) == to_postfix_loop(r, 1, << >>, << >>)

\* A transition map: a function from its keys to lists of <<symbol, target>>.
EmptyTr == << >>
TrGet(tr, k) == IF k \in DOMAIN tr THEN tr[k] ELSE << >>
\* tr[k].extend(items), for every k of keys (a defaultdict creates the key)
TrExtend(tr, keys, items) ==
    [k \in DOMAIN tr \cup keys |->
        IF k \in keys THEN TrGet(tr, k) \o items ELSE tr[k]]
\* for k, v in tr2.items(): tr1[k].extend(v)
TrMerge(tr1, tr2) ==
    [k \in DOMAIN tr1 \cup DOMAIN tr2 |-> TrGet(tr1, k) \o TrGet(tr2, k)]

Frag(st, acc, tr) == [st |-> st, acc |-> acc, tr |-> tr]

\* A counter that next() does not advance.
NoBump(g) == g

\* s, f = next(gen), next(gen)
NextId(g) == g
Bump(g) == g + 1

\* t == '.'  (lines 39-46), on the two popped fragments
Concat(s1, s2) ==
    Frag(s1.st, s2.acc,
         TrMerge(TrExtend(s1.tr, s1.acc, <<<<EPS, s2.st>>>>), s2.tr))

\* t == '|'  (lines 48-60)
Alternate(s1, s2, s, f) ==
    LET tr0 == TrMerge(TrMerge(EmptyTr, s1.tr), s2.tr)
        tr1 == TrExtend(tr0, {s}, <<<<EPS, s1.st>>, <<EPS, s2.st>>>>)
    IN  Frag(s, {f}, TrExtend(tr1, s1.acc \cup s2.acc, <<<<EPS, f>>>>))

\* Quantify with the accept states' loop-back edge left out for every quantifier.
QuantifyNoLoop(t, fr, s, f) ==
    LET tr0 == TrMerge(EmptyTr, fr.tr)
        tr1 == TrExtend(tr0, {s}, <<<<EPS, fr.st>>, <<EPS, f>>>>)
    IN  Frag(s, {f}, TrExtend(tr1, fr.acc, <<<<EPS, f>>>>))

\* t in '*+?'  (lines 62-72)
Quantify(t, fr, s, f) ==
    LET tr0 == TrMerge(EmptyTr, fr.tr)
        tr1 == TrExtend(tr0, {s},
                   IF t = "?" THEN <<<<EPS, fr.st>>, <<EPS, f>>>>
                              ELSE <<<<EPS, fr.st>>>>)
        tr2 == TrExtend(tr1, fr.acc,
                   IF t # "?" THEN <<<<EPS, fr.st>>, <<EPS, f>>>>
                              ELSE <<<<EPS, f>>>>)
        tr3 == IF t # "?" THEN TrExtend(tr2, {s}, <<<<EPS, f>>>>) ELSE tr2
    IN  Frag(s, {f}, tr3)

\* else  (lines 74-75)
Literal(t, s, f) == Frag(s, {f}, [k \in {s} |-> <<<<t, f>>>>])

\* One iteration of build's for loop on token t; b is [gen, stack, err, ids],
\* ids the identifiers next(gen) has returned so far in this call.
\* list.pop() on an empty list raises IndexError.
BuildToken(b, t) ==
    LET n == Len(b.stack)
        s == NextId(b.gen)
        f == NextId(Bump(b.gen))
        g2 == Bump(Bump(b.gen))
        raised == [gen |-> b.gen, stack |-> << >>, err |-> "IndexError", ids |-> b.ids]
    IN  IF t \in {".", "|"} THEN
            IF n < 2 THEN raised
            ELSE LET s2 == b.stack[n]
                     s1 == b.stack[n - 1]
                     rest == SubSeq(b.stack, 1, n - 2)
                 IN  IF t = "."
                     THEN [gen |-> b.gen, stack |-> Append(rest, Concat(s1, s2)),
                           err |-> "none", ids |-> b.ids]
                     ELSE [gen |-> g2, stack |-> Append(rest, Alternate(s1, s2, s, f)),
                           err |-> "none", ids |-> b.ids \cup {s, f}]
        ELSE IF t \in {"*", "+", "?"} THEN
            IF n < 1 THEN raised
            ELSE [gen |-> g2,
                  stack |-> Append(Pop(b.stack), Quantify(t, Top(b.stack), s, f)),
                  err |-> "none", ids |-> b.ids \cup {s, f}]
        ELSE [gen |-> g2, stack |-> Append(b.stack, Literal(t, s, f)),
              err |-> "none", ids |-> b.ids \cup {s, f}]

\* What a counter shared by every build call of the process would give next.
RECURSIVE Allocated(_)
Allocated(log) ==
    IF log = << >> THEN 0 ELSE Allocated(Pop(log)) + Cardinality(Top(log).ids)
ProcessWideCounter == Allocated(calls)

\* gen = count(): a counter of this call, starting at 0
NewCounter == 0
\* gen = count(); stack = []
BuildStart == [gen |-> NewCounter, stack |-> << >>, err |-> "none", ids |-> {}]

RECURSIVE build_loop(_, _, _)
build_loop(postfix_, i, b) ==
    IF i > Len(postfix_) \/ b.err # "none" THEN b
    ELSE build_loop(postfix_, i + 1, BuildToken(b, postfix_[i]))

\* return stack[0]: IndexError on an empty stack
BuildReturn(b) ==
    IF b.err # "none" THEN [err |-> b.err, nfa |-> << >>, ids |-> b.ids]
    ELSE IF b.stack = << >> THEN [err |-> "IndexError", nfa |-> << >>, ids |-> b.ids]
    ELSE [err |-> "none", nfa |-> b.stack[1], ids |-> b.ids]

\* The whole call build(postfix): its outcome, and the identifiers it allocated.
build(postfix_) == BuildReturn(build_loop(postfix_, 1, BuildStart))

\* for sym, d in tr.get(s, []): if sym is EPS and d not in res: add, push
RECURSIVE ScanEdges(_, _, _, _)
ScanEdges(edges, j, res, stk) ==
    IF j > Len(edges) THEN [res |-> res, stk |-> stk]
    ELSE LET sym == edges[j][1]
             d == edges[j][2]
         IN  IF sym = EPS /\ d \notin res
             THEN ScanEdges(edges, j + 1, res \cup {d}, Append(stk, d))
             ELSE ScanEdges(edges, j + 1, res, stk)

RECURSIVE eps_closure_loop(_, _, _)
eps_closure_loop(res, stk, tr) ==
    IF stk = << >> THEN res
    ELSE LET r == ScanEdges(TrGet(tr, Top(stk)), 1, res, Pop(stk))
         IN  eps_closure_loop(r.res, r.stk, tr)

\* list(states): the elements in some order
RECURSIVE SomeOrder(_)
SomeOrder(S) ==
    IF S = {} THEN << >>
    ELSE LET x == CHOOSE y \in S : TRUE IN <<x>> \o SomeOrder(S \ {x})

eps_closure(states, tr) == eps_closure_loop(states, SomeOrder(states), tr)

\* {d for s in states for sym, d in tr.get(s, []) if sym == ch}
move(states, ch, tr) ==
    UNION {{TrGet(tr, s)[j][2] :
               j \in {i \in DOMAIN TrGet(tr, s) : TrGet(tr, s)[i][1] = ch}}
           : s \in states}

RECURSIVE matches_loop(_, _, _, _)
matches_loop(fr, s, i, cur) ==
    IF i > Len(s) THEN (cur \cap fr.acc) # {}
    ELSE LET nxt == eps_closure(move(cur, s[i], fr.tr), fr.tr)
         IN  IF nxt = {} THEN FALSE ELSE matches_loop(fr, s, i + 1, nxt)

matches(fr, s) == matches_loop(fr, s, 1, eps_closure({fr.st}, fr.tr))

(***************************************************************************)
(* nfa_to_dfa.py                                                           *)
(* A dict is a function on its keys; d.get(k, {}) is DictGet.  The epsilon *)
(* symbol of this file is the empty string.                                *)
(***************************************************************************)
EPSILON == ""
EmptyDict == << >>
DictGet(d, k, default) == IF k \in DOMAIN d THEN d[k] ELSE default
DictSet(d, k, v) == [x \in DOMAIN d \cup {k} |-> IF x = k THEN v ELSE d[x]]

\* self.transitions[state][''] when '' in self.transitions.get(state, {})
EpsilonTargets(transitions, state) ==
    IF EPSILON \in DOMAIN DictGet(transitions, state, EmptyDict)
    THEN transitions[state][EPSILON]
    ELSE {}

\* EpsilonClosureStep that adds the targets to the closure without pushing them.
EpsilonClosureStepNoPush(closure_, stack_, pushed) ==
    [closure |-> closure_ \cup {pushed[j] : j \in DOMAIN pushed},
     stack |-> Pop(stack_)]

\* One iteration of the while loop of NFA.epsilon_closure (lines 13-18); pushed
\* lists the next_state values not yet in closure, in the order the for loop
\* met them.
EpsilonClosureStep(closure_, stack_, pushed) ==
    [closure |-> closure_ \cup {pushed[j] : j \in DOMAIN pushed},
     stack |-> Pop(stack_) \o pushed]

\* NewTargets without the test next_state not in closure.
AllTargets(transitions, closure_, state) == EpsilonTargets(transitions, state)

\* lines 15-16: the next_state values that are not in closure
NewTargets(transitions, closure_, state) == EpsilonTargets(transitions, state) \ closure_

RECURSIVE epsilon_closure_loop(_, _, _)
epsilon_closure_loop(transitions, closure_, stack_) ==
    IF stack_ = << >> THEN closure_
    ELSE LET r == EpsilonClosureStep(closure_, stack_,
                      SomeOrder(NewTargets(transitions, closure_, Top(stack_))))
         IN  epsilon_closure_loop(transitions, r.closure, r.stack)

\* NFA.epsilon_closure(state_set_)
epsilon_closure(n, state_set_) ==
    epsilon_closure_loop(n.transitions, state_set_, SomeOrder(state_set_))

\* NextStates without the epsilon-closure of the targets.
NextStatesNoClosure(n, current_, symbol) ==
    UNION {DictGet(DictGet(n.transitions, state, EmptyDict), symbol, {}) :
              state \in current_}

\* lines 52-56: the union of the closures of the symbol's targets
NextStates(n, current_, symbol) ==
    UNION {epsilon_closure(n, {target}) :
              target \in UNION {DictGet(DictGet(n.transitions, state, EmptyDict),
                                        symbol, {}) : state \in current_}}

\* lines 64-66
AcceptMarking(n, dfa_states_) ==
    {ss \in dfa_states_ : \E q \in ss : q \in n.accept_states}

\* DFA.accepts(string)
RECURSIVE accepts_loop(_, _, _, _)
accepts_loop(d, string, i, current_state) ==
    IF i > Len(string) THEN current_state \in d.accept_states
    ELSE IF string[i] \notin d.alphabet THEN FALSE
    ELSE LET row == DictGet(d.transitions, current_state, EmptyDict)
         IN  IF string[i] \notin DOMAIN row THEN FALSE
             ELSE accepts_loop(d, string, i + 1, row[string[i]])

accepts(d, string) == accepts_loop(d, string, 1, d.start_state)

(***************************************************************************)
(* Values of the variables a specification does not use.                   *)
(***************************************************************************)
None == << >>

RxIdle ==
    /\ pattern = None /\ proc = None /\ postfix = None /\ idx = 0 /\ gen = 0
    /\ ids = {} /\ stack = << >> /\ nfa = None
SdIdle ==
    /\ nfa_arg = None /\ start_closure = {} /\ dfa_states = {}
    /\ unmarked_states = << >> /\ dfa_transitions = EmptyDict
    /\ dfa_accept_states = {} /\ current = {} /\ todo = {} /\ popped = << >>
    /\ dfa = None
ClIdle ==
    /\ impl = None /\ rel = None /\ state_set = {} /\ closure = {}
    /\ worklist = << >> /\ pushes = << >> /\ round = 0 /\ first = {}
ComIdle == err = "none" /\ input = None /\ result = FALSE

(***************************************************************************)
(* One run of regex_to_NFA.py's pipeline (lines 104-109): a pattern is     *)
(* normalised, compiled token by token, and matched against one input.     *)
(***************************************************************************)
Init ==
    /\ pc = "start"
    /\ pattern \in Patterns
    /\ proc = None /\ postfix = None /\ idx = 0 /\ gen = 0
    /\ ids = {} /\ stack = << >> /\ nfa = None
    /\ calls = << >>
    /\ ComIdle /\ SdIdle /\ ClIdle

\* proc = add_concat(regex)
AddConcat ==
    /\ pc = "start"
    /\ proc' = add_concat(pattern)
    /\ pc' = "add_concat_done"
    /\ UNCHANGED <<pattern, postfix, idx, gen, ids, stack, nfa>>
    /\ UNCHANGED <<comVars, calls, sdVars, clVars>>

\* postfix = to_postfix(proc)
ToPostfix ==
    /\ pc = "add_concat_done"
    /\ postfix' = to_postfix(proc)
    /\ pc' = "to_postfix_done"
    /\ UNCHANGED <<pattern, proc, idx, gen, ids, stack, nfa>>
    /\ UNCHANGED <<comVars, calls, sdVars, clVars>>

\* build is entered: gen = count(); stack = []
BuildEnter ==
    /\ pc = "to_postfix_done"
    /\ gen' = BuildStart.gen
    /\ ids' = BuildStart.ids
    /\ stack' = BuildStart.stack
    /\ idx' = 1
    /\ pc' = "build"
    /\ UNCHANGED <<pattern, proc, postfix, nfa>>
    /\ UNCHANGED <<comVars, calls, sdVars, clVars>>

\* one iteration of for t in postfix
BuildStep ==
    /\ pc = "build"
    /\ idx <= Len(postfix)
    /\ LET b == BuildToken([gen |-> gen, stack |-> stack, err |-> err, ids |-> ids],
                           postfix[idx])
       IN  /\ gen' = b.gen
           /\ ids' = b.ids
           /\ stack' = b.stack
           /\ err' = b.err
           /\ pc' = IF b.err = "none" THEN "build" ELSE "raised_in_build"
    /\ idx' = idx + 1
    /\ UNCHANGED <<pattern, proc, postfix, nfa, input, result>>
    /\ UNCHANGED <<calls, sdVars, clVars>>

\* return stack[0]
BuildExit ==
    /\ pc = "build"
    /\ idx > Len(postfix)
    /\ LET r == BuildReturn([gen |-> gen, stack |-> stack, err |-> err, ids |-> ids])
       IN  /\ err' = r.err
           /\ nfa' = r.nfa
           /\ pc' = IF r.err = "none" THEN "built" ELSE "raised_in_build"
    /\ UNCHANGED <<pattern, proc, postfix, idx, gen, ids, stack, input, result>>
    /\ UNCHANGED <<calls, sdVars, clVars>>

\* matches(nfa, s)
Match ==
    /\ pc = "built"
    /\ \E s \in Inputs :
          /\ input' = s
          /\ result' = matches(nfa, s)
    /\ pc' = "matched"
    /\ UNCHANGED <<err, rxVars, calls, sdVars, clVars>>

Next == AddConcat \/ ToPostfix \/ BuildEnter \/ BuildStep \/ BuildExit \/ Match

Spec == Init /\ [][Next]_vars

(***************************************************************************)
(* Properties of the regex pipeline (Spec)                                 *)
(***************************************************************************)
Range(seq) == {seq[i] : i \in DOMAIN seq}
Finished == pc \in {"built", "matched", "raised_in_build"}

\* The fragment the next iteration of build pushes, when the token is '+'.
PlusNext == pc = "build" /\ idx <= Len(postfix) /\ postfix[idx] = "+" /\ stack # << >>
PlusFragment ==
    Top(BuildToken([gen |-> gen, stack |-> stack, err |-> err, ids |-> ids], "+").stack)

\* C2: the '+' fragment has no epsilon edge from its start to its accept state and
\* does not accept the empty string when its operand does not; "ab+c" rejects
\* "ac" and accepts "abc" and "abbc"; "ab*c" accepts "ac".
C2_PlusNeedsOnePass ==
    /\ (PlusNext /\ ~matches(Top(stack), << >>)) =>
          /\ \A f \in PlusFragment.acc :
                <<EPS, f>> \notin Range(TrGet(PlusFragment.tr, PlusFragment.st))
          /\ ~matches(PlusFragment, << >>)
    /\ (pc = "matched" /\ pattern = PatPlus) =>
          /\ (input = <<"a", "c">> => ~result)
          /\ (input \in {<<"a", "b", "c">>, <<"a", "b", "b", "c">>} => result)
    /\ (pc = "matched" /\ pattern = PatStar /\ input = <<"a", "c">>) => result

\* Parentheses of a pattern: a ')' met at depth 0, or a depth above 0 at the end.
RECURSIVE UnbalancedFrom(_, _, _)
UnbalancedFrom(r, i, depth) ==
    IF i > Len(r) THEN depth > 0
    ELSE IF r[i] = "(" THEN UnbalancedFrom(r, i + 1, depth + 1)
    ELSE IF r[i] = ")" THEN depth = 0 \/ UnbalancedFrom(r, i + 1, depth - 1)
    ELSE UnbalancedFrom(r, i + 1, depth)
Unbalanced(r) == UnbalancedFrom(r, 1, 0)

\* C3: compiling a pattern with unbalanced parentheses ends in a malformed-pattern
\* error and never returns an NFA; no '(' reaches the postfix output.
C3_UnbalancedIsError ==
    Unbalanced(pattern) =>
        /\ pc \notin {"built", "matched"}
        /\ "(" \notin Range(postfix)
        /\ Finished => err = "MalformedPatternError"

\* Empty, or starting with a binary operator, or ending with '|' or the marker.
Dangling(r) ==
    \/ r = << >>
    \/ r[1] \in {"|", "."}
    \/ r[Len(r)] \in {"|", "."}

\* C4: a pattern that is empty or has a dangling binary operator fails with a
\* malformed-pattern error during normalization: build is never entered, no
\* identifier is allocated and no fragment is pushed.
C4_DanglingFailsInNormalization ==
    Dangling(pattern) =>
        /\ pc \notin {"build", "built", "matched", "raised_in_build"}
        /\ ids = {} /\ stack = << >>
        /\ pc = "to_postfix_done" => err = "MalformedPatternError"

\* The language a(b|c)*d, stated on the string.
InCompositeLanguage(s) ==
    /\ Len(s) >= 2
    /\ s[1] = "a"
    /\ s[Len(s)] = "d"
    /\ \A i \in 2..(Len(s) - 1) : s[i] \in {"b", "c"}

\* C5: matches on the NFA compiled from "a(b|c)*d" returns true exactly for an
\* 'a', then any number of 'b' or 'c', then a 'd'.
C5_CompositeLanguage ==
    (pc = "matched" /\ pattern = PatComposite) =>
        (result <=> InCompositeLanguage(input))

\* C5 witness: "abcd" was matched against the NFA of "a(b|c)*d" and accepted.
C5_Witness ==
    /\ pc = "matched" /\ pattern = PatComposite
    /\ input = <<"a", "b", "c", "d">> /\ result = TRUE

\* The grammar of patterns: R ::= literal | R R | R '|' R | '(' R ')' | R '*' |
\* R '+' | R '?', a literal being any character that is not one of ( ) | * + ? .
MetaChars == {"(", ")", "|", "*", "+", "?", "."}

RECURSIVE WellFormed(_)
WellFormed(r) ==
    LET n == Len(r) IN
    \/ n = 1 /\ r[1] \notin MetaChars
    \/ n >= 2 /\ r[n] \in {"*", "+", "?"} /\ WellFormed(SubSeq(r, 1, n - 1))
    \/ n >= 3 /\ r[1] = "(" /\ r[n] = ")" /\ WellFormed(SubSeq(r, 2, n - 1))
    \/ \E k \in 1..(n - 1) :
          /\ WellFormed(SubSeq(r, 1, k))
          /\ WellFormed(SubSeq(r, k + 1, n))
    \/ \E k \in 2..(n - 1) :
          /\ r[k] = "|"
          /\ WellFormed(SubSeq(r, 1, k - 1))
          /\ WellFormed(SubSeq(r, k + 1, n))

WellFormedPatterns == {p \in Patterns : WellFormed(p)}

\* The number of stack.pop() calls build makes on token t.
Operands(t) == IF t \in {".", "|"} THEN 2 ELSE IF t \in {"*", "+", "?"} THEN 1 ELSE 0

\* C11: for a well-formed pattern, build on to_postfix(add_concat(pattern))
\* never pops from an empty operand stack (every token finds the operands it
\* pops and no IndexError is raised), exactly one fragment is on the stack after
\* the last postfix token, and that fragment's start, accept set and transition
\* map are what build returns.
C11_WellFormedLeavesOneFragment ==
    pattern \in WellFormedPatterns =>
        /\ err = "none" /\ pc # "raised_in_build"
        /\ (pc = "build" /\ idx <= Len(postfix)) =>
              Len(stack) >= Operands(postfix[idx])
        /\ (pc = "build" /\ idx > Len(postfix)) => Len(stack) = 1
        /\ pc \in {"built", "matched"} =>
              /\ Len(stack) = 1
              /\ nfa.st = stack[1].st
              /\ nfa.acc = stack[1].acc
              /\ nfa.tr = stack[1].tr

\* C11 witness: build has returned on "a(b|c)*d", a well-formed pattern whose
\* postfix form has operators of every arity, with one fragment left.
C11_Witness ==
    /\ pc = "built" /\ pattern = PatComposite
    /\ pattern \in WellFormedPatterns
    /\ {Operands(postfix[i]) : i \in DOMAIN postfix} = {0, 1, 2}
    /\ Len(stack) = 1 /\ nfa = stack[1]

\* The states of a stacked fragment: its start, its accept states, and the
\* sources and targets of its transitions.
FragStates(fr) ==
    {fr.st} \cup fr.acc \cup DOMAIN fr.tr
        \cup UNION {{e[2] : e \in Range(fr.tr[k])} : k \in DOMAIN fr.tr}

\* The next(gen) calls of the first n tokens: two for every token but '.'.
RECURSIVE NextCalls(_, _)
NextCalls(postfix_, n) ==
    IF n = 0 THEN 0
    ELSE NextCalls(postfix_, n - 1) + (IF postfix_[n] = "." THEN 0 ELSE 2)

InBuild == pc \in {"build", "built", "matched"}

\* Every next(gen) so far returned a value of its own, and they are 0..gen-1.
NeverReused ==
    InBuild => /\ ids = 0..(gen - 1)
               /\ Cardinality(ids) = NextCalls(postfix, idx - 1)

\* A build step keeps the identifiers allocated and adds only larger ones.
AllocatesUpward ==
    pc = "build" => /\ ids \subseteq ids'
                    /\ gen' >= gen
                    /\ \A new \in ids' \ ids : \A old \in ids : new > old

\* The stacked fragments share no state, and hold allocated identifiers only.
StackDisjoint ==
    InBuild =>
        /\ \A i \in DOMAIN stack : FragStates(stack[i]) \subseteq ids
        /\ \A i, j \in DOMAIN stack :
              i # j => FragStates(stack[i]) \cap FragStates(stack[j]) = {}

\* The next token merges the two top fragments' transition maps.
MergeNext ==
    /\ pc = "build" /\ idx <= Len(postfix)
    /\ postfix[idx] \in {".", "|"} /\ Len(stack) >= 2

\* The fragment that merge pushes.
Merged ==
    Top(BuildToken([gen |-> gen, stack |-> stack, err |-> err, ids |-> ids],
                   postfix[idx]).stack)

\* In the merged map, the list under a key of operand fr starts with the list fr
\* had under it, followed by at most the one epsilon edge the operator adds.
OwnEntries(fr) ==
    \A k \in DOMAIN fr.tr :
        /\ k \in DOMAIN Merged.tr
        /\ Len(Merged.tr[k]) \in {Len(fr.tr[k]), Len(fr.tr[k]) + 1}
        /\ SubSeq(Merged.tr[k], 1, Len(fr.tr[k])) = fr.tr[k]
        /\ \A j \in (Len(fr.tr[k]) + 1)..Len(Merged.tr[k]) :
              Merged.tr[k][j][1] = EPS /\ k \in fr.acc

\* No key of the two merged maps is shared, and the identifiers the merge
\* allocates are states of no stacked fragment.
MergeKeepsKeysApart ==
    MergeNext =>
        LET s1 == stack[Len(stack) - 1]
            s2 == stack[Len(stack)]
        IN  /\ DOMAIN s1.tr \cap DOMAIN s2.tr = {}
            /\ \A i \in DOMAIN stack :
                  {NextId(gen), NextId(Bump(gen))} \cap FragStates(stack[i]) = {}
            /\ OwnEntries(s1) /\ OwnEntries(s2)

\* C12: within one build call identifiers are allocated in strictly increasing
\* order and never reused; after every postfix token the fragments on the
\* operand stack have pairwise disjoint state sets (start, accept states,
\* transition sources and targets); and merging two fragments' transition maps
\* never combines entries of unrelated states under one key.
C12_FragmentsDisjoint ==
    /\ [](NeverReused /\ StackDisjoint /\ MergeKeepsKeysApart)
    /\ [][AllocatesUpward]_vars

\* C12 witness: in the build of "a(b|c)*d" three fragments are stacked, six
\* identifiers are allocated, and the next token '|' merges the top two.
C12_Witness ==
    /\ MergeNext /\ postfix[idx] = "|"
    /\ pattern = PatComposite
    /\ Len(stack) = 3 /\ ids = 0..5
    /\ DOMAIN stack[2].tr # {} /\ DOMAIN stack[3].tr # {}

(***************************************************************************)
(* nfa_to_dfa(nfa) step by step, then one call of DFA.accepts.             *)
(***************************************************************************)
\* The dict state -> symbol -> set of states holding the edges E.
TransitionsOf(E) ==
    [q \in {e[1] : e \in E} |->
        [a \in {e[2] : e \in {x \in E : x[1] = q}} |->
            {e[3] : e \in {x \in E : x[1] = q /\ x[2] = a}}]]

NFA(states, alphabet, transitions, start_state, accept_states) ==
    [states |-> states, alphabet |-> alphabet, transitions |-> transitions,
     start_state |-> start_state, accept_states |-> accept_states]

DFA(states, alphabet, transitions, start_state, accept_states) ==
    [states |-> states, alphabet |-> alphabet, transitions |-> transitions,
     start_state |-> start_state, accept_states |-> accept_states]

\* States are opaque names and nfa_to_dfa never inspects one: every NFA is, up to
\* renaming, one whose start state is named 0.
StartState == 0
NfaEdges == NfaStates \X (NfaSymbols \cup {EPSILON}) \X NfaStates
Words == StrUpTo(NfaSymbols, MaxWordLen)

InitDFA ==
    /\ pc = "nfa_to_dfa"
    /\ \E E \in SetsUpTo(NfaEdges, MaxEdges), alphabet \in SUBSET NfaSymbols,
          accept_states \in SUBSET NfaStates :
          nfa_arg = NFA(NfaStates, alphabet, TransitionsOf(E), StartState, accept_states)
    /\ start_closure = {} /\ dfa_states = {}
    /\ unmarked_states = << >> /\ dfa_transitions = EmptyDict
    /\ dfa_accept_states = {} /\ current = {} /\ todo = {} /\ popped = << >>
    /\ dfa = None
    /\ calls = << >>
    /\ ComIdle /\ RxIdle /\ ClIdle

\* lines 42-46
Enter ==
    /\ pc = "nfa_to_dfa"
    /\ LET sc == epsilon_closure(nfa_arg, {nfa_arg.start_state})
       IN  /\ start_closure' = sc
           /\ dfa_states' = {sc}
           /\ unmarked_states' = <<sc>>
    /\ dfa_transitions' = EmptyDict
    /\ dfa_accept_states' = {}
    /\ pc' = "while"
    /\ UNCHANGED <<nfa_arg, current, todo, popped, dfa>>
    /\ UNCHANGED <<comVars, rxVars, calls, clVars>>

\* lines 48-50: current = unmarked_states.pop(); dfa_transitions[current] = {}
PopState ==
    /\ pc = "while"
    /\ unmarked_states # << >>
    /\ current' = Top(unmarked_states)
    /\ unmarked_states' = Pop(unmarked_states)
    /\ popped' = Append(popped, Top(unmarked_states))
    /\ dfa_transitions' = DictSet(dfa_transitions, Top(unmarked_states), EmptyDict)
    /\ todo' = nfa_arg.alphabet
    /\ pc' = IF nfa_arg.alphabet = {} THEN "while" ELSE "for"
    /\ UNCHANGED <<nfa_arg, start_closure, dfa_states, dfa_accept_states, dfa>>
    /\ UNCHANGED <<comVars, rxVars, calls, clVars>>

\* Unseen without the membership test: every target is enqueued.
UnseenAlways(next_states_frozen, dfa_states_) == TRUE

\* line 60: next_states_frozen not in dfa_states
Unseen(next_states_frozen, dfa_states_) == next_states_frozen \notin dfa_states_

\* Record as dfa_transitions[current] = {symbol: next_states_frozen}.
RecordReplacingRow(transitions, current_, symbol, next_states_frozen) ==
    DictSet(transitions, current_, DictSet(EmptyDict, symbol, next_states_frozen))

\* line 59: dfa_transitions[current][symbol] = next_states_frozen
Record(transitions, current_, symbol, next_states_frozen) ==
    DictSet(transitions, current_,
            DictSet(transitions[current_], symbol, next_states_frozen))

\* lines 51-62, one iteration of for symbol in nfa.alphabet (a set: any order)
SymbolStep ==
    /\ pc = "for"
    /\ \E symbol \in todo :
          LET next_states == NextStates(nfa_arg, current, symbol)
              keyed == current \in DOMAIN dfa_transitions
          IN  /\ todo' = todo \ {symbol}
              /\ IF next_states = {}
                 THEN /\ pc' = IF todo' = {} THEN "while" ELSE "for"
                      /\ UNCHANGED <<dfa_transitions, dfa_states, unmarked_states, err>>
                 ELSE IF ~keyed
                 THEN /\ err' = "KeyError"
                      /\ pc' = "raised"
                      /\ UNCHANGED <<dfa_transitions, dfa_states, unmarked_states>>
                 ELSE /\ dfa_transitions' =
                            Record(dfa_transitions, current, symbol, next_states)
                      /\ IF Unseen(next_states, dfa_states)
                         THEN /\ dfa_states' = dfa_states \cup {next_states}
                              /\ unmarked_states' = Append(unmarked_states, next_states)
                         ELSE UNCHANGED <<dfa_states, unmarked_states>>
                      /\ pc' = IF todo' = {} THEN "while" ELSE "for"
                      /\ err' = err
    /\ UNCHANGED <<nfa_arg, start_closure, dfa_accept_states, current, popped, dfa>>
    /\ UNCHANGED <<input, result, rxVars, calls, clVars>>

\* lines 64-74
Return ==
    /\ pc = "while"
    /\ unmarked_states = << >>
    /\ dfa_accept_states' = AcceptMarking(nfa_arg, dfa_states)
    /\ dfa' = DFA(dfa_states, nfa_arg.alphabet, dfa_transitions, start_closure,
                  AcceptMarking(nfa_arg, dfa_states))
    /\ pc' = "returned"
    /\ UNCHANGED <<nfa_arg, start_closure, dfa_states, unmarked_states, dfa_transitions,
                   current, todo, popped>>
    /\ UNCHANGED <<comVars, rxVars, calls, clVars>>

\* dfa.accepts(s)
Accepts ==
    /\ pc = "returned"
    /\ \E s \in Words :
          /\ input' = s
          /\ result' = accepts(dfa, s)
    /\ pc' = "accepted"
    /\ UNCHANGED <<err, rxVars, calls, sdVars, clVars>>

NextDFA == Enter \/ PopState \/ SymbolStep \/ Return \/ Accepts

SpecDFA == InitDFA /\ [][NextDFA]_vars

(***************************************************************************)
(* Properties of nfa_to_dfa and DFA.accepts (SpecDFA)                      *)
(***************************************************************************)
\* The NFA object as the triple (start, accept, transitions) regex_to_NFA.matches
\* runs on: each state's edges as a list of (symbol, target), '' as EPS.
EdgesOf(n, q) ==
    {<<IF a = EPSILON THEN EPS ELSE a, d>> :
        <<a, d>> \in UNION {{a} \X n.transitions[q][a] : a \in DOMAIN n.transitions[q]}}
AsFragment(n) ==
    Frag(n.start_state, n.accept_states,
         [q \in DOMAIN n.transitions |-> SomeOrder(EdgesOf(n, q))])

\* The symbols other than epsilon that label a transition of the NFA.
Labels(n) == UNION {DOMAIN n.transitions[q] : q \in DOMAIN n.transitions} \ {EPSILON}

\* C1, as stated: on every well-formed NFA and every input, DFA.accepts on
\* nfa_to_dfa(N) returns what the NFA simulation of N returns.
C1_AcceptsEqualsSimulation ==
    pc = "accepted" => (result <=> matches(AsFragment(nfa_arg), input))

\* C1, amended: the two agree on every well-formed NFA whose transition symbols
\* other than epsilon all belong to its alphabet, on every input.
C1_AcceptsEqualsSimulationInAlphabet ==
    (pc = "accepted" /\ Labels(nfa_arg) \subseteq nfa_arg.alphabet) =>
        (result <=> matches(AsFragment(nfa_arg), input))

\* C1 witness: a DFA of two or more states, built from an NFA with an epsilon
\* transition and labels inside its alphabet, accepted an input of two symbols.
C1_Witness ==
    /\ pc = "accepted" /\ Labels(nfa_arg) \subseteq nfa_arg.alphabet
    /\ Len(input) >= 2 /\ result = TRUE
    /\ EPSILON \in UNION {DOMAIN nfa_arg.transitions[q] : q \in DOMAIN nfa_arg.transitions}
    /\ Cardinality(dfa.states) >= 2

NoDuplicates(seq) == \A i, j \in DOMAIN seq : seq[i] = seq[j] => i = j
InLoop == pc \in {"while", "for"}
Returned == pc \in {"returned", "accepted"}

\* Every transition recorded so far is still recorded, with the same target.
KeepsTransitions ==
    \A T \in DOMAIN dfa_transitions : \A a \in DOMAIN dfa_transitions[T] :
        /\ T \in DOMAIN dfa_transitions'
        /\ a \in DOMAIN dfa_transitions'[T]
        /\ dfa_transitions'[T][a] = dfa_transitions[T][a]

Deduplicated ==
    /\ InLoop =>
          /\ NoDuplicates(popped \o unmarked_states)
          /\ Range(popped \o unmarked_states) = dfa_states
          /\ \A T \in DOMAIN dfa_transitions : \A a \in DOMAIN dfa_transitions[T] :
                dfa_transitions[T][a] \in dfa_states
    /\ Returned =>
          /\ dfa.transitions = dfa_transitions
          /\ dfa.states = dfa_states
          /\ \A T \in DOMAIN dfa.transitions : \A a \in DOMAIN dfa.transitions[T] :
                dfa.transitions[T][a] \in dfa.states

\* C6: during the loop and in the returned DFA every state set is in the state
\* collection once and was enqueued once, every recorded target is one state of
\* the collection, and a recorded transition is never removed or replaced.
C6_Deterministic == []Deduplicated /\ [][KeepsTransitions]_vars

\* C6 witness: a returned DFA of two or more states, one of them with a
\* transition on each symbol, one of these back to itself (an already seen set).
C6_Witness ==
    /\ pc = "returned"
    /\ \E T \in DOMAIN dfa.transitions :
          /\ DOMAIN dfa.transitions[T] = {"a", "b"}
          /\ \E a \in {"a", "b"} : dfa.transitions[T][a] = T
    /\ Cardinality(dfa.states) >= 2

\* What is left of the loop: the state sets still to pop, each with one
\* iteration per symbol, and the symbols left for the current one.
Measure ==
    (2 ^ Cardinality(nfa_arg.states) - 1 - Len(popped))
        * (Cardinality(nfa_arg.alphabet) + 1) + Cardinality(todo)

Progress ==
    /\ err = "none" /\ pc # "raised"
    /\ pc = "for" => todo # {}
    /\ InLoop => NoDuplicates(popped) /\ Measure >= 0
    /\ Returned =>
          /\ unmarked_states = << >>
          /\ Range(popped) = dfa.states
          /\ Len(popped) = Cardinality(dfa.states)

Decreases == (InLoop /\ pc' \in {"while", "for"}) => Measure' < Measure

\* C7: nfa_to_dfa terminates without an error on every well-formed NFA: until it
\* returns a step can be taken (Enter at the entry; PopState or Return at the head
\* of the while loop, their guards being complementary; SymbolStep inside the for
\* loop, where a symbol is always left), every step of the loop decreases a
\* measure that never drops below zero, and at the return the worklist is empty
\* and every DFA state of the result was popped exactly once.
C7_Terminates == []Progress /\ [][Decreases]_vars

\* C7 witness: nfa_to_dfa returned after popping two or more state sets, on an NFA
\* with an epsilon self-loop, a state without transitions and no accept state.
C7_Witness ==
    /\ pc = "returned"
    /\ Len(popped) >= 2
    /\ nfa_arg.accept_states = {}
    /\ \E q \in DOMAIN nfa_arg.transitions :
          /\ EPSILON \in DOMAIN nfa_arg.transitions[q]
          /\ q \in nfa_arg.transitions[q][EPSILON]
    /\ \E q \in nfa_arg.states : q \notin DOMAIN nfa_arg.transitions

(***************************************************************************)
(* The two epsilon-closure loops, one iteration of the while loop at a     *)
(* time: NFA.epsilon_closure (nfa_to_dfa.py) on a dict of dicts of sets,   *)
(* eps_closure (regex_to_NFA.py) on a dict of lists of (symbol, target).   *)
(* The closure is then taken a second time, of its own result.             *)
(***************************************************************************)
\* list(S), a set in any order
RECURSIVE Orders(_)
Orders(S) ==
    IF S = {} THEN {<< >>}
    ELSE UNION {{<<x>> \o o : o \in Orders(S \ {x})} : x \in S}

\* The dict state -> list of (symbol, target) holding the edges of L in order.
RECURSIVE TrOf(_)
TrOf(L) ==
    IF L = << >> THEN EmptyTr
    ELSE TrExtend(TrOf(Pop(L)), {Top(L)[1]}, <<<<Top(L)[2], Top(L)[3]>>>>)

RECURSIVE SeqsUpTo(_, _)
SeqsUpTo(U, k) ==
    IF k = 0 THEN {<< >>}
    ELSE LET shorter == SeqsUpTo(U, k - 1)
         IN  shorter \cup {Append(L, x) : L \in shorter, x \in U}

TrEdges == NfaStates \X (NfaSymbols \cup {EPS}) \X NfaStates
StarStar == build(to_postfix(add_concat(PatStarStar))).nfa

InitClosure ==
    /\ pc = "closure"
    /\ \/ /\ impl = "NFA.epsilon_closure"
          /\ \E E \in SetsUpTo(NfaEdges, MaxEdges) : rel = TransitionsOf(E)
          /\ state_set \in SUBSET NfaStates
       \/ /\ impl = "eps_closure"
          /\ \E L \in SeqsUpTo(TrEdges, MaxEdges) : rel = TrOf(L)
          /\ state_set \in SUBSET NfaStates
       \/ /\ impl = "eps_closure"
          /\ rel = StarStar.tr
          /\ state_set = {StarStar.st}
    /\ closure = {} /\ worklist = << >> /\ pushes = << >>
    /\ round = 1 /\ first = {}
    /\ calls = << >>
    /\ ComIdle /\ RxIdle /\ SdIdle

\* stack = list(state_set); closure = set(state_set)
ClosureEnter ==
    /\ pc = "closure"
    /\ worklist' \in Orders(state_set)
    /\ closure' = state_set
    /\ pushes' = << >>
    /\ pc' = "closure_while"
    /\ UNCHANGED <<impl, rel, state_set, round, first>>
    /\ UNCHANGED <<comVars, rxVars, calls, sdVars>>

\* NFA.epsilon_closure, lines 13-18 (the for loop runs over a set: any order)
EpsilonClosurePop ==
    /\ pc = "closure_while"
    /\ impl = "NFA.epsilon_closure"
    /\ worklist # << >>
    /\ \E pushed \in Orders(NewTargets(rel, closure, Top(worklist))) :
          LET r == EpsilonClosureStep(closure, worklist, pushed)
          IN  /\ closure' = r.closure
              /\ worklist' = r.stack
              /\ pushes' = pushes \o SubSeq(r.stack, Len(worklist), Len(r.stack))
    /\ UNCHANGED <<pc, impl, rel, state_set, round, first>>
    /\ UNCHANGED <<comVars, rxVars, calls, sdVars>>

\* eps_closure, lines 81-85
EpsClosurePop ==
    /\ pc = "closure_while"
    /\ impl = "eps_closure"
    /\ worklist # << >>
    /\ LET r == ScanEdges(TrGet(rel, Top(worklist)), 1, closure, Pop(worklist))
       IN  /\ closure' = r.res
           /\ worklist' = r.stk
           /\ pushes' = pushes \o SubSeq(r.stk, Len(worklist), Len(r.stk))
    /\ UNCHANGED <<pc, impl, rel, state_set, round, first>>
    /\ UNCHANGED <<comVars, rxVars, calls, sdVars>>

\* return closure / return res
ClosureReturn ==
    /\ pc = "closure_while"
    /\ worklist = << >>
    /\ first' = IF round = 1 THEN closure ELSE first
    /\ pc' = IF round = 1 THEN "closure_returned" ELSE "closure_done"
    /\ UNCHANGED <<impl, rel, state_set, closure, worklist, pushes, round>>
    /\ UNCHANGED <<comVars, rxVars, calls, sdVars>>

\* the closure of the result
ClosureAgain ==
    /\ pc = "closure_returned"
    /\ state_set' = first
    /\ round' = 2
    /\ pc' = "closure"
    /\ UNCHANGED <<impl, rel, closure, worklist, pushes, first>>
    /\ UNCHANGED <<comVars, rxVars, calls, sdVars>>

NextClosure ==
    ClosureEnter \/ EpsilonClosurePop \/ EpsClosurePop \/ ClosureReturn \/ ClosureAgain

SpecClosure == InitClosure /\ [][NextClosure]_vars

(***************************************************************************)
(* Properties of the closure loops (SpecClosure)                           *)
(***************************************************************************)
\* The states a closure run can meet: the seed, the keys and the targets.
RelTargets ==
    IF impl = "NFA.epsilon_closure"
    THEN UNION {UNION {rel[q][a] : a \in DOMAIN rel[q]} : q \in DOMAIN rel}
    ELSE UNION {{e[2] : e \in Range(rel[q])} : q \in DOMAIN rel}
RelStates == state_set \cup DOMAIN rel \cup RelTargets

\* The epsilon edges of the relation, as pairs.
EpsPairs ==
    IF impl = "NFA.epsilon_closure"
    THEN UNION {{q} \X rel[q][EPSILON] : q \in {x \in DOMAIN rel : EPSILON \in DOMAIN rel[x]}}
    ELSE UNION {{<<q, e[2]>> : e \in {x \in Range(rel[q]) : x[1] = EPS}} : q \in DOMAIN rel}
OnEpsCycle(q) ==
    \E n \in 1..Cardinality(RelStates) :
        \E path \in [1..(n + 1) -> RelStates] :
            /\ path[1] = q /\ path[n + 1] = q
            /\ \A i \in 1..n : <<path[i], path[i + 1]>> \in EpsPairs

ClosureMeasure == 2 * Cardinality(RelStates \ closure) + Len(worklist)

PushedOnce ==
    pc = "closure_while" =>
        /\ NoDuplicates(pushes)
        /\ Range(pushes) \cap state_set = {}
        /\ Range(worklist) \subseteq closure
        /\ closure \subseteq RelStates

ClosureDecreases ==
    (pc = "closure_while" /\ pc' = "closure_while") => ClosureMeasure' < ClosureMeasure

\* C8: both closure loops terminate on every finite relation and seed, epsilon
\* cycles included: an iteration can be taken until the loop returns (a pop while
\* the worklist is not empty, the return when it is), every iteration decreases
\* a measure that is never negative, and no state is pushed twice after seeding.
C8_ClosureTerminates == []PushedOnce /\ [][ClosureDecreases]_vars

\* C8 witness: eps_closure returned on the NFA of "a**" after pushing four or
\* more states, one of them on an epsilon cycle.
C8_Witness ==
    /\ pc = "closure_returned"
    /\ impl = "eps_closure"
    /\ rel = StarStar.tr
    /\ Len(pushes) >= 4
    /\ \E q \in Range(pushes) : OnEpsCycle(q)

\* C9: the closure of a closure is that closure, for both implementations.
C9_ClosureIdempotent == pc = "closure_done" => closure = first

\* C9 witness: NFA.epsilon_closure was run on a seed and on its result, three
\* states with an epsilon cycle among them.
C9_Witness ==
    /\ pc = "closure_done"
    /\ impl = "NFA.epsilon_closure"
    /\ Cardinality(first) = 3
    /\ Cardinality(state_set) = 3
    /\ \E q \in first : OnEpsCycle(q)

(***************************************************************************)
(* Two independent calls of build in one process.                          *)
(***************************************************************************)
Postfixes == {to_postfix(add_concat(p)) : p \in Patterns}

InitBuilds ==
    /\ pc = "process"
    /\ calls = << >>
    /\ ComIdle /\ RxIdle /\ SdIdle /\ ClIdle

\* build(postfix), a whole call; its outcome is appended to the log
BuildCall ==
    /\ pc = "process"
    /\ Len(calls) < 2
    /\ \E pf \in Postfixes :
          LET r == build(pf)
          IN  calls' = Append(calls, [postfix |-> pf, err |-> r.err,
                                      ids |-> r.ids, nfa |-> r.nfa])
    /\ UNCHANGED <<pc, comVars, rxVars, sdVars, clVars>>

NextBuilds == BuildCall

SpecBuilds == InitBuilds /\ [][NextBuilds]_vars

====
